---- MODULE Spec2Model ----
(***************************************************************************)
(* A model of the regexp package: the pattern scanner, the recursive       *)
(* descent parser that builds the NFA, and the NFA simulation of           *)
(* MatchString.  Pattern and input texts are byte strings (sequences of    *)
(* numbers 0..255); the NFA lives in a heap, a sequence of node records    *)
(* addressed by their index, with 0 standing for the nil interface value.  *)
(***************************************************************************)
EXTENDS Integers, Sequences, FiniteSets, TLC

VARIABLES pattern, compiled, mustc, pool, input, out, outm, calls, sets, slot, pc

vars ==
  <<pattern, compiled, mustc, pool, input, out, outm, calls, sets, slot, pc>>

----------------------------------------------------------------------------
(* Code points the parser compares against.                                *)

RuneError == 65533
QMark == 63
Plus == 43
Star == 42
LParen == 40
RParen == 41
Pipe == 124
Backslash == 92
Dot == 46

----------------------------------------------------------------------------
(* unicode/utf8.DecodeRuneInString as the scanner and the range loop use   *)
(* it: <<rune, width>>.  The empty string gives <<RuneError, 0>>, a        *)
(* malformed or truncated encoding <<RuneError, 1>>.                       *)

IsCont(b) == b >= 128 /\ b <= 191

Utf8Size(b0) ==
  IF b0 < 128 THEN 1
  ELSE IF b0 >= 194 /\ b0 <= 223 THEN 2
  ELSE IF b0 >= 224 /\ b0 <= 239 THEN 3
  ELSE IF b0 >= 240 /\ b0 <= 244 THEN 4
  ELSE 0

Utf8Lo(b0) ==
  IF b0 = 224 THEN 160 ELSE IF b0 = 240 THEN 144 ELSE 128

Utf8Hi(b0) ==
  IF b0 = 237 THEN 159 ELSE IF b0 = 244 THEN 143 ELSE 191

DecodeRune(s) ==
  IF Len(s) = 0 THEN <<RuneError, 0>>
  ELSE LET b0 == s[1]
           sz == Utf8Size(b0)
       IN IF sz = 1 THEN <<b0, 1>>
          ELSE IF sz = 0 \/ Len(s) < sz THEN <<RuneError, 1>>
          ELSE IF s[2] < Utf8Lo(b0) \/ s[2] > Utf8Hi(b0) THEN <<RuneError, 1>>
          ELSE IF sz = 2 THEN <<(b0 % 32) * 64 + (s[2] % 64), 2>>
          ELSE IF ~IsCont(s[3]) THEN <<RuneError, 1>>
          ELSE IF sz = 3
                 THEN <<(b0 % 16) * 4096 + (s[2] % 64) * 64 + (s[3] % 64), 3>>
          ELSE IF ~IsCont(s[4]) THEN <<RuneError, 1>>
          ELSE <<(b0 % 8) * 262144 + (s[2] % 64) * 4096
                   + (s[3] % 64) * 64 + (s[4] % 64), 4>>

(* The code points of a string, as "for _, r := range in" yields them.     *)
RECURSIVE Runes(_)
Runes(s) ==
  IF Len(s) = 0 THEN <<>>
  ELSE LET d == DecodeRune(s)
       IN <<d[1]>> \o Runes(SubSeq(s, d[2] + 1, Len(s)))

----------------------------------------------------------------------------
(* The scanner: p is [in, pos, width, heap]; pos is a byte offset from 0.  *)

NewParser(in) == [in |-> in, pos |-> 0, width |-> 0, heap |-> <<>>]

Rest(p) == SubSeq(p.in, p.pos + 1, Len(p.in))

NextRune(p) == DecodeRune(Rest(p))[1]

Moved(p, w) == [p EXCEPT !.width = w, !.pos = @ + w]

next(p) == Moved(p, DecodeRune(Rest(p))[2])

backup(p) == [p EXCEPT !.pos = @ - p.width, !.width = 0]

peek(p) == backup(next(p))

----------------------------------------------------------------------------
(* NFA nodes.  kind is the concrete node type; eps the epsilon list in     *)
(* insertion order; n the consuming successor of a match node (0: nil).    *)

Nil == 0

NodeRec(kind, r) == [kind |-> kind, r |-> r, eps |-> <<>>, n |-> Nil]

IsMatchBuilder(node) == node.kind \in {"literal", "dot"}

matches(node, r) ==
  IF node.kind = "dot" THEN TRUE
  ELSE IF node.kind = "literal" THEN r = node.r
  ELSE FALSE

addEpsilon(heap, n, e) == [heap EXCEPT ![n].eps = Append(@, e)]

(* The successor left unset.                                               *)
setNextNothing(heap, n, nx) == heap

setNext(heap, n, nx) == [heap EXCEPT ![n].n = nx]

(* Allocation: the new node's address is Len(heap) + 1.                    *)
Alloc(heap, kind, r) == Append(heap, NodeRec(kind, r))

----------------------------------------------------------------------------
(* expr: a graph fragment with a start and an end.                         *)

EmptyExpr == [start |-> Nil, end |-> Nil]

isEmpty(e) == e = EmptyExpr

(* concat returns the heap after the wiring and the combined expr.         *)
concat(heap, e, nx) ==
  IF isEmpty(e) THEN [heap |-> heap, e |-> nx]
  ELSE IF isEmpty(nx) THEN [heap |-> heap, e |-> e]
  ELSE [heap |-> IF IsMatchBuilder(heap[e.end])
                   THEN setNext(heap, e.end, nx.start)
                   ELSE addEpsilon(heap, e.end, nx.start),
        e |-> [start |-> e.start, end |-> nx.end]]

concatNode(heap, e, n) == concat(heap, e, [start |-> n, end |-> n])

----------------------------------------------------------------------------
(* The parser.  Every parse function returns [p, e, err, panic]: the       *)
(* parser (scanner position and heap) after the call, the expr, the error  *)
(* ("" for nil) and whether the call panicked (a method call on a nil      *)
(* interface value).  Intermediate values of a function body are passed    *)
(* on as parameters of the helper that models the rest of the body.        *)

Ret(p, e, err) == [p |-> p, e |-> e, err |-> err, panic |-> FALSE]

Panic(p) == [p |-> p, e |-> EmptyExpr, err |-> "", panic |-> TRUE]

Failed(r) == r.panic \/ r.err # ""

Single(n) == [start |-> n, end |-> n]

(* The parser with heap h, returning the expr of c = [heap, e].            *)
RetConcat(p, c, err) == Ret([p EXCEPT !.heap = c.heap], c.e, err)

(* n := &dotNode{} or &literalNode{r}; return expr{n, n}, nil              *)
NewMatchNode(p, kind, r) ==
  Ret([p EXCEPT !.heap = Alloc(p.heap, kind, r)], Single(Len(p.heap) + 1), "")

parseDot(p) == NewMatchNode(next(p), "dot", 0)

parseLiteral(p) == NewMatchNode(next(p), "literal", NextRune(p))

EscapeSwitch(p, r) ==
  IF r \in {QMark, Star, Plus, LParen, RParen, Pipe}
    THEN parseLiteral(p)
    ELSE Ret(p, EmptyExpr, "unknown escape sequence")

EscapePeek(p) == EscapeSwitch(peek(p), NextRune(p))

parseEscape(p) == EscapePeek(next(p))

(* The switch of parseMeta: node n, just allocated in heap, is wired.      *)
MetaSwitch(heap, mc, n, term) ==
  IF mc = Plus THEN addEpsilon(heap, n, term.start)
  ELSE IF mc = Star
    THEN addEpsilon(addEpsilon(heap, n, term.start), term.start, n)
  ELSE addEpsilon(heap, term.start, n)

MetaKind(mc) ==
  IF mc = Plus THEN "plus" ELSE IF mc = Star THEN "star" ELSE "qmark"

MetaNode(p, mc, n, term) ==
  RetConcat(p,
            concatNode(MetaSwitch(Alloc(p.heap, MetaKind(mc), 0), mc, n, term),
                       term, n),
            "")

parseMeta(p, term) == MetaNode(next(p), NextRune(p), Len(p.heap) + 1, term)

RECURSIVE parseClauseLoop(_, _)
RECURSIVE ClauseSwitch(_, _, _)
RECURSIVE ClauseAfterPipe(_)
RECURSIVE ClauseAfterTerm(_, _)
RECURSIVE ClauseConcat(_, _)
RECURSIVE parseClause(_)
RECURSIVE parsePipe(_, _)
RECURSIVE PipeLhs(_, _)
RECURSIVE PipeRhs(_, _)
RECURSIVE parseTerm(_)
RECURSIVE TermSwitch(_, _)
RECURSIVE TermAtom(_)
RECURSIVE parseSubexp(_)
RECURSIVE SubexpClause(_)

parseClause(p) == parseClauseLoop(p, EmptyExpr)

parseClauseLoop(p, e) == ClauseSwitch(peek(p), e, NextRune(p))

ClauseSwitch(p, e, r) ==
  IF r \in {RuneError, RParen} THEN Ret(p, e, "")
  ELSE IF r = Pipe THEN ClauseAfterPipe(parsePipe(p, e))
  ELSE ClauseAfterTerm(parseTerm(p), e)

ClauseAfterPipe(pr) ==
  IF Failed(pr) THEN pr ELSE parseClauseLoop(pr.p, pr.e)

ClauseAfterTerm(tr, e) ==
  IF Failed(tr) THEN tr ELSE ClauseConcat(tr.p, concat(tr.p.heap, e, tr.e))

ClauseConcat(p, c) == parseClauseLoop([p EXCEPT !.heap = c.heap], c.e)

(* Lines 197-201 of parsePipe: n is the address the pipeNode will get.     *)
PipeJoinLhs(p, c, lhs, n) ==
  Ret([p EXCEPT !.heap = concatNode(c.heap, lhs, n).heap], c.e, "")

PipeJoin(p, e, lhs, n) ==
  PipeJoinLhs(p,
              concatNode(Alloc(addEpsilon(p.heap, e.start, lhs.start), "pipe", 0),
                         e, n),
              lhs, n)

parsePipe(p, lhs) == PipeLhs(next(p), lhs)

PipeLhs(p, lhs) ==
  IF isEmpty(lhs)
    THEN Ret(peek(p), EmptyExpr, "invalid empty expression to the left")
    ELSE PipeRhs(parseClause(p), lhs)

PipeRhs(cr, lhs) ==
  IF Failed(cr) THEN cr
  ELSE IF cr.e.start = Nil THEN Panic(cr.p)
  ELSE PipeJoin(cr.p, cr.e, lhs, Len(cr.p.heap) + 1)

parseTerm(p) == TermSwitch(peek(p), NextRune(p))

TermSwitch(p, r) ==
  IF r \in {QMark, Plus, Star} THEN Ret(p, EmptyExpr, "Invalid character")
  ELSE IF r = LParen THEN TermAtom(parseSubexp(p))
  ELSE IF r = Backslash THEN TermAtom(parseEscape(p))
  ELSE IF r = Dot THEN TermAtom(parseDot(p))
  ELSE TermAtom(parseLiteral(p))

TermAtom(ar) ==
  IF Failed(ar) THEN ar
  ELSE IF NextRune(ar.p) \in {QMark, Plus, Star}
    THEN parseMeta(peek(ar.p), ar.e)
    ELSE Ret(peek(ar.p), ar.e, "")

(* Lines 245-251 of parseSubexp: lp and rp are the addresses of the        *)
(* leftParenNode and the rightParenNode.                                   *)
SubexpClose(p, c, rp, err) == RetConcat(p, concatNode(c.heap, c.e, rp), err)

(* A group whose opening marker also leads straight to its closing marker. *)
SubexpWrapBypass(p, e, r, lp, rp) ==
  SubexpClose(p,
              concat(addEpsilon(Alloc(Alloc(p.heap, "leftParen", 0),
                                      "rightParen", 0), lp, rp),
                     Single(lp), e),
              rp,
              IF r # RParen THEN "unterminated subexp" ELSE "")

SubexpWrap(p, e, r, lp, rp) ==
  SubexpClose(p,
              concat(Alloc(Alloc(p.heap, "leftParen", 0), "rightParen", 0),
                     Single(lp), e),
              rp,
              IF r # RParen THEN "unterminated subexp" ELSE "")

parseSubexp(p) == SubexpClause(parseClause(next(p)))

SubexpClause(cr) ==
  IF Failed(cr) THEN cr
  ELSE SubexpWrap(next(cr.p), cr.e, NextRune(cr.p),
                  Len(cr.p.heap) + 1, Len(cr.p.heap) + 2)

(* parse: [err, panic, start, term, heap, stop]; stop is the offset at     *)
(* which the outermost parseClause returned.                               *)
ParseResult(err, panic, e, heap, stop) ==
  [err |-> err, panic |-> panic, start |-> e.start, term |-> e.end,
   heap |-> heap, stop |-> stop]

ParseTerminal(c, stop) == ParseResult("", FALSE, c.e, c.heap, stop)

ParseFinish(cr, len) ==
  IF cr.panic THEN ParseResult("", TRUE, EmptyExpr, <<>>, cr.p.pos)
  ELSE IF cr.err # "" THEN ParseResult(cr.err, FALSE, EmptyExpr, <<>>, cr.p.pos)
  ELSE IF cr.p.pos # len
    THEN ParseResult("illegal", FALSE, EmptyExpr, <<>>, cr.p.pos)
  ELSE ParseTerminal(concatNode(Alloc(cr.p.heap, "terminal", 0), cr.e,
                                Len(cr.p.heap) + 1),
                     cr.p.pos)

parse(in) == ParseFinish(parseClause(NewParser(in)), Len(in))

----------------------------------------------------------------------------
(* Regexp, Compile and MustCompile.  A call's outcome is "ok" (returned    *)
(* with a nil error), "err" (returned a non-nil error) or "panic".         *)

NilRegexp == [nil |-> TRUE, start |-> Nil, term |-> Nil, heap |-> <<>>]

CompileResult(pr) ==
  IF pr.panic
    THEN [status |-> "panic", r |-> NilRegexp, err |-> "", stop |-> pr.stop]
  ELSE IF pr.err # ""
    THEN [status |-> "err", r |-> NilRegexp, err |-> pr.err, stop |-> pr.stop]
  ELSE [status |-> "ok",
        r |-> [nil |-> FALSE, start |-> pr.start, term |-> pr.term,
               heap |-> pr.heap],
        err |-> "", stop |-> pr.stop]

Compile(pat) == CompileResult(parse(pat))

MustCompileResult(c) ==
  IF c.status = "panic" THEN c
  ELSE IF c.err # "" THEN [c EXCEPT !.status = "panic"]
  ELSE c

MustCompile(pat) == MustCompileResult(Compile(pat))

----------------------------------------------------------------------------
(* nodeSet and MatchString.  A nodeSet is a set of node addresses; adding  *)
(* the nil node stores it and then panics on its epsilons() call, which    *)
(* the model records by the presence of Nil in the set.                    *)

RECURSIVE add(_, _, _)
RECURSIVE addEach(_, _, _)

add(heap, s, n) ==
  IF n \in s THEN s
  ELSE IF n = Nil THEN s \cup {Nil}
  ELSE addEach(heap, s \cup {n}, heap[n].eps)

addEach(heap, s, es) ==
  IF es = <<>> THEN s
  ELSE addEach(heap, add(heap, s, Head(es)), Tail(es))

(* One live node of cur visited for code point r: lines 41-43.             *)
visit(heap, nx, n, r) ==
  IF n # Nil /\ IsMatchBuilder(heap[n]) /\ matches(heap[n], r)
    THEN add(heap, nx, heap[n].n)
    ELSE nx

(* "for n := range cur" in one of the orders the map may be ranged in.     *)
RECURSIVE visitAll(_, _, _, _)
visitAll(heap, todo, nx, r) ==
  IF todo = {} THEN nx
  ELSE LET n == CHOOSE x \in todo : \A y \in todo : x <= y
       IN visitAll(heap, todo \ {n}, visit(heap, nx, n, r), r)

RECURSIVE matchLoop(_, _, _)
RECURSIVE matchSwap(_, _, _)

matchLoop(re, cur, runes) ==
  IF Nil \in cur THEN "panic"
  ELSE IF runes = <<>>
    THEN IF re.term \in cur THEN "match" ELSE "nomatch"
  ELSE matchSwap(re, visitAll(re.heap, cur, {}, Head(runes)), Tail(runes))

(* Lines 45-49: nx is next after the range over cur.                       *)
matchSwap(re, nx, runes) ==
  IF nx = {} THEN "nomatch" ELSE matchLoop(re, nx, runes)

MatchString(re, in) ==
  IF re.nil THEN "panic"
  ELSE matchLoop(re, add(re.heap, {}, re.start), Runes(in))

----------------------------------------------------------------------------
(* Texts the model draws patterns and inputs from: concatenations of at    *)
(* most n pieces, each piece the UTF-8 encoding of one code point or one   *)
(* undecodable byte.                                                       *)

MaxPatLen == 4
MaxInLen == 2

RECURSIVE Flatten(_)
Flatten(q) == IF q = <<>> THEN <<>> ELSE Head(q) \o Flatten(Tail(q))

Texts(S, n) == {Flatten(q) : q \in UNION {[1..k -> S] : k \in 0..n}}

Ch(c) == <<c>>

Emoji == <<240, 159, 152, 131>>
Replacement == <<239, 191, 189>>
BadByte == <<255>>

MetaPieces == {Ch(QMark), Ch(Plus), Ch(Star), Ch(LParen), Ch(RParen),
               Ch(Pipe), Ch(Backslash)}

AllPieces == {Ch(97), Ch(98), Ch(Dot), Emoji, Replacement, BadByte}
               \cup MetaPieces

InPieces == {Ch(97), Ch(98), Ch(Star), Emoji, Replacement}

AbPieces == {Ch(97), Ch(98)}

(* The inputs MatchString is called on: the texts of at most pool.len      *)
(* pieces of pool.pieces, the pool being the one the specification picks.  *)
Pool(pieces, len) == [pieces |-> pieces, len |-> len]

Inputs(pl) == Texts(pl.pieces, pl.len)

----------------------------------------------------------------------------
(* The state machine: a driver that, for each pattern in turn, calls       *)
(* Compile, MatchString on the result, MustCompile, and MatchString on     *)
(* its result, all MatchString calls on one input.                         *)

NotCalled == [status |-> "none", r |-> NilRegexp, err |-> "", stop |-> 0]

Unset == <<-1>>

InitWith(pats, ins) ==
  /\ pattern \in pats
  /\ pool = ins
  /\ input = Unset
  /\ compiled = [i \in DOMAIN pattern |-> NotCalled]
  /\ mustc = [i \in DOMAIN pattern |-> NotCalled]
  /\ out = [i \in DOMAIN pattern |-> "none"]
  /\ outm = [i \in DOMAIN pattern |-> "none"]
  /\ calls = <<>>
  /\ sets = <<>>
  /\ slot = 1
  /\ pc = "compile"

Init ==
  InitWith({<<t>> : t \in Texts(AllPieces, MaxPatLen)}, Pool(InPieces, MaxInLen))

Advance ==
  IF slot < Len(pattern)
    THEN slot' = slot + 1 /\ pc' = "compile"
    ELSE slot' = slot /\ pc' = "done"

CallCompile ==
  /\ pc = "compile"
  /\ compiled' = [compiled EXCEPT ![slot] = Compile(pattern[slot])]
  /\ pc' = IF compiled'[slot].status = "ok" THEN "match" ELSE "must"
  /\ UNCHANGED <<pattern, mustc, pool, input, out, outm, calls, sets, slot>>

CallMatchString ==
  /\ pc = "match"
  /\ \E s \in (IF input = Unset THEN Inputs(pool) ELSE {input}) :
       /\ input' = s
       /\ out' = [out EXCEPT ![slot] = MatchString(compiled[slot].r, s)]
  /\ pc' = "must"
  /\ UNCHANGED <<pattern, compiled, mustc, pool, outm, calls, sets, slot>>

CallMustCompile ==
  /\ pc = "must"
  /\ mustc' = [mustc EXCEPT ![slot] = MustCompile(pattern[slot])]
  /\ IF mustc'[slot].status = "ok"
       THEN pc' = "mustmatch" /\ slot' = slot
       ELSE Advance
  /\ UNCHANGED <<pattern, compiled, pool, input, out, outm, calls, sets>>

CallMatchMust ==
  /\ pc = "mustmatch"
  /\ input # Unset
  /\ outm' = [outm EXCEPT ![slot] = MatchString(mustc[slot].r, input)]
  /\ Advance
  /\ UNCHANGED <<pattern, compiled, mustc, pool, input, out, calls, sets>>

Next == CallCompile \/ CallMatchString \/ CallMustCompile \/ CallMatchMust

Spec == Init /\ [][Next]_vars

----------------------------------------------------------------------------
(* Vocabulary of the claims: what a pattern text is made of.               *)

Escapable == {QMark, Star, Plus, LParen, RParen, Pipe}

Quantifiers == {QMark, Plus, Star}

MetaRunes == Escapable \cup {Backslash}

(* The text holds no undecodable byte: it is a sequence of code points.    *)
RECURSIVE IsCodePoints(_)
IsCodePoints(s) ==
  \/ Len(s) = 0
  \/ LET d == DecodeRune(s)
     IN /\ ~(d[1] = RuneError /\ d[2] <= 1)
        /\ IsCodePoints(SubSeq(s, d[2] + 1, Len(s)))

Called(i) == i \in DOMAIN compiled /\ compiled[i].status # "none"

Matched(i) == i \in DOMAIN out /\ out[i] # "none"

----------------------------------------------------------------------------
(* C2: Compile never panics: for every pattern text it returns either a    *)
(* compiled pattern with a nil error or a nil pattern with a non-nil       *)
(* error.  The code does not keep this: parsePipe panics on an empty       *)
(* right operand (line 197).                                               *)
C2_CompileNeverPanics ==
  \A i \in DOMAIN compiled :
    Called(i) =>
      \/ compiled[i].status = "ok" /\ ~compiled[i].r.nil /\ compiled[i].err = ""
      \/ compiled[i].status = "err" /\ compiled[i].r.nil /\ compiled[i].err # ""

(* C3: whole-string anchoring for metacharacter-free patterns: a pattern    *)
(* made only of literal code points and '.' compiles, and accepts exactly  *)
(* the inputs with as many code points that agree with it wherever it is   *)
(* not '.'.  The code rejects the literal U+FFFD (C10).                    *)
MetaFree(s) ==
  IsCodePoints(s) /\ \A k \in 1..Len(Runes(s)) : Runes(s)[k] \notin MetaRunes

Positionwise(pr, ir) ==
  /\ Len(pr) = Len(ir)
  /\ \A k \in 1..Len(pr) : pr[k] = Dot \/ pr[k] = ir[k]

C3_MetaFreeAnchored ==
  \A i \in DOMAIN compiled :
    (Called(i) /\ MetaFree(pattern[i])) =>
      /\ compiled[i].status = "ok"
      /\ Matched(i) =>
           ((out[i] = "match") <=> Positionwise(Runes(pattern[i]), Runes(input)))

(* C5: malformed patterns are rejected with an error.  The tokens of a     *)
(* pattern: an escaped metacharacter is a literal.                         *)
RECURSIVE Tokens(_)
Tokens(rs) ==
  IF rs = <<>> THEN <<>>
  ELSE IF rs[1] = Backslash /\ Len(rs) >= 2 /\ rs[2] \in Escapable
    THEN <<"lit">> \o Tokens(SubSeq(rs, 3, Len(rs)))
  ELSE <<IF rs[1] \in Quantifiers THEN "q"
         ELSE IF rs[1] = LParen THEN "("
         ELSE IF rs[1] = RParen THEN ")"
         ELSE IF rs[1] = Pipe THEN "|"
         ELSE "lit">> \o Tokens(Tail(rs))

(* Parenthesis depth after each token, from depth d; -1 once a ')' had no  *)
(* matching '('.                                                           *)
RECURSIVE Depth(_, _)
Depth(ts, d) ==
  IF ts = <<>> THEN d
  ELSE IF ts[1] = "(" THEN Depth(Tail(ts), d + 1)
  ELSE IF ts[1] = ")" THEN IF d = 0 THEN -1 ELSE Depth(Tail(ts), d - 1)
  ELSE Depth(Tail(ts), d)

Malformed(s) ==
  LET ts == Tokens(Runes(s))
  IN \/ \E k \in 1..Len(ts) :
          ts[k] = "q" /\ (k = 1 \/ ts[k - 1] \in {"(", "|", "q"})
     \/ \E k \in 1..Len(ts) :
          ts[k] = "|" /\ (k = 1 \/ ts[k - 1] \in {"(", "|"})
     \/ Depth(ts, 0) # 0

C5_MalformedRejected ==
  \A i \in DOMAIN compiled :
    (Called(i) /\ Malformed(pattern[i])) => compiled[i].status = "err"

(* C6: a backslash before one of ? * + ( ) | is a literal accepting that   *)
(* one character, and may be quantified; a backslash before anything else  *)
(* or at the end of the pattern makes Compile return an error.             *)
BadEscape(rs) ==
  \E k \in 1..Len(rs) :
    rs[k] = Backslash /\ (k = Len(rs) \/ rs[k + 1] \notin Escapable)

Repeats(ir, c) == \A k \in 1..Len(ir) : ir[k] = c

EscapeAccepts(rs, ir) ==
  IF Len(rs) = 2 THEN ir = <<rs[2]>>
  ELSE IF rs[3] = Plus THEN Len(ir) >= 1 /\ Repeats(ir, rs[2])
  ELSE IF rs[3] = Star THEN Repeats(ir, rs[2])
  ELSE Len(ir) <= 1 /\ Repeats(ir, rs[2])

IsEscapeTerm(rs) ==
  /\ Len(rs) \in {2, 3}
  /\ rs[1] = Backslash
  /\ rs[2] \in Escapable
  /\ Len(rs) = 3 => rs[3] \in Quantifiers

C6_Escapes ==
  \A i \in DOMAIN compiled :
    Called(i) =>
      LET rs == Runes(pattern[i])
      IN /\ BadEscape(rs) => compiled[i].status = "err"
         /\ IsEscapeTerm(rs) =>
              /\ compiled[i].status = "ok"
              /\ Matched(i) =>
                   ((out[i] = "match") <=> EscapeAccepts(rs, Runes(input)))

(* C7: MustCompile panics if and only if Compile returns a non-nil error,  *)
(* and otherwise returns a pattern that matches as Compile's does; a       *)
(* failed Compile returns a nil pattern.                                   *)
C7_MustCompileMirrorsCompile ==
  \A i \in DOMAIN mustc :
    mustc[i].status # "none" =>
      /\ (mustc[i].status = "panic") <=> (compiled[i].status = "err")
      /\ compiled[i].status = "err" => compiled[i].r.nil
      /\ outm[i] # "none" => outm[i] = out[i]

(* C10: the scanner yields its end sentinel only at the end of the text,   *)
(* so the outermost clause stops only at end-of-input or before a ')'.     *)
ClauseReturned(i) ==
  Called(i) /\ compiled[i].status # "panic" /\ compiled[i].err \in {"", "illegal"}

C10_ClauseStopsAtEndOrParen ==
  \A i \in DOMAIN compiled :
    ClauseReturned(i) =>
      LET p == [NewParser(pattern[i]) EXCEPT !.pos = compiled[i].stop]
      IN /\ NextRune(p) = RuneError => p.pos = Len(pattern[i])
         /\ p.pos = Len(pattern[i]) \/ NextRune(p) = RParen

----------------------------------------------------------------------------
(* Alternation: the driver compiles L, R and L|R and matches all three on  *)
(* one input.                                                              *)

MaxLhsLen == 1
MaxRhsLen == 4
MaxAltIn == 2

AltLhs == Texts({Ch(97), Ch(98)}, MaxLhsLen) \ {<<>>}

AltRhs ==
  Texts({Ch(97), Ch(98), Ch(Star), Ch(Plus), Ch(LParen), Ch(RParen)}, MaxRhsLen)
    \ {<<>>}

InitAlt ==
  InitWith({<<l, r, l \o Ch(Pipe) \o r>> : l \in AltLhs, r \in AltRhs},
           Pool(AbPieces, MaxAltIn))

SpecAlt == InitAlt /\ [][Next]_vars

(* C1: alternation accepts exactly the union of its operands: when L and   *)
(* R compile, L|R compiles and matches an input if and only if L or R      *)
(* does.  The code does not keep this when R's entry is re-entered by a    *)
(* loop (a|b*, a|b+, a|(b)*a).                                             *)
C1_AlternationIsUnion ==
  (Len(pattern) = 3 /\ Called(3)
     /\ compiled[1].status = "ok" /\ compiled[2].status = "ok") =>
    /\ compiled[3].status = "ok"
    /\ Matched(3) =>
         ((out[3] = "match") <=> (out[1] = "match" \/ out[2] = "match"))

----------------------------------------------------------------------------
(* Quantifiers: the driver compiles an atom T, T followed by a quantifier  *)
(* q, and bTqa, and matches all three on one input.                        *)

MaxGroupLen == 3
MaxQuantIn == 3

Balanced(s) == Depth(Tokens(Runes(s)), 0) = 0

GroupBodies ==
  {c \in Texts({Ch(97), Ch(98), Ch(Pipe), Ch(Star), Ch(LParen), Ch(RParen)},
               MaxGroupLen) : Balanced(c)}

Group(c) == Ch(LParen) \o c \o Ch(RParen)

(* Literals of two, three and four bytes; the second three-byte one is     *)
(* U+FFFD.                                                                 *)
WideLiterals == {<<195, 169>>, <<226, 130, 172>>, Replacement, Emoji}

QuantCase(t) ==
  {<<t, t \o Ch(q), Ch(98) \o t \o Ch(q) \o Ch(97)>> : q \in Quantifiers}

InitQuant ==
  \/ InitWith(UNION {QuantCase(Group(c)) : c \in GroupBodies},
              Pool(AbPieces, MaxQuantIn))
  \/ InitWith(UNION {QuantCase(t) : t \in {Ch(97), Ch(Dot)}},
              Pool(AbPieces, MaxQuantIn))
  \/ \E t \in WideLiterals :
       InitWith(QuantCase(t), Pool({t, Ch(97), Ch(98)}, MaxQuantIn))
  \/ \E c \in Escapable :
       InitWith(QuantCase(Ch(Backslash) \o Ch(c)),
                Pool({Ch(c), Ch(97), Ch(98)}, MaxQuantIn))

SpecQuant == InitQuant /\ [][Next]_vars

(* The code points of a text, each as its own byte string.                 *)
RECURSIVE Chunks(_)
Chunks(s) ==
  IF Len(s) = 0 THEN <<>>
  ELSE <<SubSeq(s, 1, DecodeRune(s)[2])>>
         \o Chunks(SubSeq(s, DecodeRune(s)[2] + 1, Len(s)))

Join(cs, i, k) == Flatten(SubSeq(cs, i, k))

Accepts(re, s) == MatchString(re, s) = "match"

(* cs from its i-th code point on is a concatenation of strings that re    *)
(* accepts.                                                                *)
RECURSIVE InStar(_, _, _)
InStar(re, cs, i) ==
  \/ i > Len(cs)
  \/ \E k \in i..Len(cs) : Accepts(re, Join(cs, i, k)) /\ InStar(re, cs, k + 1)

InPlus(re, cs) ==
  \/ Accepts(re, <<>>) /\ InStar(re, cs, 1)
  \/ \E k \in 1..Len(cs) : Accepts(re, Join(cs, 1, k)) /\ InStar(re, cs, k + 1)

QuantAccepts(q, re, cs) ==
  IF q = Plus THEN InPlus(re, cs)
  ELSE IF q = Star THEN InStar(re, cs, 1)
  ELSE cs = <<>> \/ Accepts(re, Flatten(cs))

IsAtom(t) ==
  \/ Len(Runes(t)) = 1 /\ IsCodePoints(t) /\ Runes(t)[1] \notin MetaRunes
  \/ Len(t) = 2 /\ t[1] = Backslash /\ t[2] \in Escapable
  \/ /\ Len(t) >= 2 /\ t[1] = LParen /\ t[Len(t)] = RParen
     /\ Balanced(SubSeq(t, 2, Len(t) - 1))

IsQuantCase ==
  /\ Len(pattern) = 3
  /\ IsAtom(pattern[1])
  /\ \E q \in Quantifiers :
       /\ pattern[2] = pattern[1] \o Ch(q)
       /\ pattern[3] = Ch(98) \o pattern[2] \o Ch(97)

QuantOf(t) == t[Len(t)]

Framed(q, re, cs) ==
  /\ Len(cs) >= 2
  /\ cs[1] = Ch(98)
  /\ cs[Len(cs)] = Ch(97)
  /\ QuantAccepts(q, re, SubSeq(cs, 2, Len(cs) - 1))

(* A literal, '.', or an escaped metacharacter: an atom whatever follows.   *)
IsPlainAtom(t) ==
  \/ Len(Runes(t)) = 1 /\ IsCodePoints(t) /\ Runes(t)[1] \notin MetaRunes
  \/ Len(t) = 2 /\ t[1] = Backslash /\ t[2] \in Escapable

(* Tq accepts exactly what the quantifier makes of the strings T accepts,  *)
(* and bTqa accepts exactly b, a string Tq accepts, a.                     *)
QuantifierGadget ==
  /\ Called(2) => compiled[2].status = "ok"
  /\ Matched(2) =>
       ((out[2] = "match")
          <=> QuantAccepts(QuantOf(pattern[2]), compiled[1].r, Chunks(input)))
  /\ Called(3) => compiled[3].status = "ok"
  /\ Matched(3) =>
       ((out[3] = "match")
          <=> Framed(QuantOf(pattern[2]), compiled[1].r, Chunks(input)))

(* C4: for every atom T (a literal of any byte width, '.', an escaped      *)
(* metacharacter, a group) T+ accepts exactly the concatenations of one    *)
(* or more strings T accepts, T* those of zero or more, T? the empty       *)
(* input and the strings T accepts; and the quantifier applies to the      *)
(* atom only: bTqa accepts exactly b, a string Tq accepts, a.  A           *)
(* quantified literal is therefore a pattern: it compiles.  The code       *)
(* rejects the literal U+FFFD (C10).                                       *)
C4_QuantifierSemantics ==
  IsQuantCase =>
    /\ (IsPlainAtom(pattern[1]) /\ Called(2)) => compiled[2].status = "ok"
    /\ compiled[1].status = "ok" => QuantifierGadget

(* The same for the atoms Compile accepts.                                 *)
QuantifiersOnCompiledAtoms ==
  (IsQuantCase /\ compiled[1].status = "ok") => QuantifierGadget

(* T is a group and T+ has matched an input of several code points that   *)
(* T itself rejects: the repetition is what accepts.                       *)
QuantifiersWitness ==
  /\ IsQuantCase
  /\ pattern[1][1] = LParen
  /\ QuantOf(pattern[2]) = Plus
  /\ Matched(2) /\ out[2] = "match"
  /\ out[1] = "nomatch"
  /\ Len(input) >= 2

----------------------------------------------------------------------------
(* Grouping: the driver compiles c and (c) and matches both on one input.  *)

MaxBodyLen == 3
MaxGroupIn == 3

GroupPieces ==
  {Ch(97), Ch(98), Ch(Dot), Ch(Pipe), Ch(Star), Ch(Plus), Ch(QMark),
   Ch(LParen), Ch(RParen), Ch(Backslash)}

InitGroup ==
  InitWith({<<c, Group(c)>> : c \in Texts(GroupPieces, MaxBodyLen)},
           Pool(AbPieces, MaxGroupIn))

SpecGroup == InitGroup /\ [][Next]_vars

IsGroupCase == Len(pattern) = 2 /\ pattern[2] = Group(pattern[1])

(* C8: parentheses only group: when c compiles, (c) compiles and matches   *)
(* exactly the inputs c matches.                                           *)
C8_ParenthesesOnlyGroup ==
  (IsGroupCase /\ compiled[1].status = "ok") =>
    /\ Called(2) => compiled[2].status = "ok"
    /\ Matched(2) => out[2] = out[1]

(* A group around an alternation has matched a non-empty input.            *)
C8_Witness ==
  /\ IsGroupCase
  /\ \E k \in 1..Len(pattern[1]) : pattern[1][k] = Pipe
  /\ Matched(2) /\ out[2] = "match" /\ out[1] = "match"
  /\ Len(input) >= 1

----------------------------------------------------------------------------
(* Concurrent matching: after Compile, several callers run MatchString on  *)
(* the one compiled pattern, each on an input of its own, their steps      *)
(* interleaved.  A step is one statement of MatchString; the live nodes    *)
(* of cur are visited in any order.                                        *)

MaxConcPat == 2
MaxConcIn == 1

Callers == {"c1", "c2"}

ConcPieces == {Ch(97), Ch(98), Ch(Dot), Ch(Star), Ch(Pipe)}

IdleCall ==
  [pc |-> "idle", in |-> <<>>, rest |-> <<>>, todo |-> {}, ret |-> "none",
   mixed |-> FALSE]

NoSets == [cur |-> {}, next |-> {}]

InitConc ==
  /\ pattern \in {<<t>> : t \in Texts(ConcPieces, MaxConcPat)}
  /\ pool = Pool(AbPieces, MaxConcIn)
  /\ input = Unset
  /\ compiled = [i \in DOMAIN pattern |-> NotCalled]
  /\ mustc = [i \in DOMAIN pattern |-> NotCalled]
  /\ out = [i \in DOMAIN pattern |-> "none"]
  /\ outm = [i \in DOMAIN pattern |-> "none"]
  /\ calls = [c \in Callers |-> IdleCall]
  /\ sets = [c \in Callers |-> NoSets]
  /\ slot = 1
  /\ pc = "compile"

(* One pair of nodeSets used by every call.                                *)
SetsOfShared(c) == "c1"

(* Line 37: the two nodeSets are allocated by the call, so every call has  *)
(* its own.                                                                *)
SetsOf(c) == c

Running(c) == calls[c].pc \notin {"idle", "done"}

(* The call has taken a step while another call was under way.             *)
Mixed(c) == calls[c].mixed \/ \E d \in Callers \ {c} : Running(d)

Shared == UNCHANGED <<pattern, compiled, mustc, pool, input, out, outm, slot, pc>>

CanMatch == pc = "match" /\ compiled[1].status = "ok"

(* Lines 37-38.                                                            *)
MatchBegin(c) ==
  /\ CanMatch
  /\ calls[c].pc = "idle"
  /\ \E s \in Inputs(pool) :
       calls' = [calls EXCEPT ![c] =
                   [pc |-> "loop", in |-> s, rest |-> Runes(s), todo |-> {},
                    ret |-> "none", mixed |-> Mixed(c)]]
  /\ sets' = [sets EXCEPT ![SetsOf(c)] =
                [cur |-> add(compiled[1].r.heap, {}, compiled[1].r.start),
                 next |-> {}]]
  /\ Shared

(* Lines 39-40: the next code point is taken and the range over cur        *)
(* begins.                                                                 *)
MatchRange(c) ==
  /\ CanMatch
  /\ calls[c].pc = "loop"
  /\ calls[c].rest # <<>>
  /\ calls' = [calls EXCEPT ![c].pc = "range",
                            ![c].todo = sets[SetsOf(c)].cur,
                            ![c].mixed = Mixed(c)]
  /\ UNCHANGED sets
  /\ Shared

(* Lines 41-43 for one live node.                                          *)
MatchVisit(c) ==
  /\ CanMatch
  /\ calls[c].pc = "range"
  /\ \E n \in calls[c].todo :
       /\ calls' = [calls EXCEPT ![c].todo = @ \ {n}, ![c].mixed = Mixed(c)]
       /\ sets' = [sets EXCEPT ![SetsOf(c)].next =
                     visit(compiled[1].r.heap, @, n, Head(calls[c].rest))]
  /\ Shared

(* Lines 45-49.                                                            *)
MatchSwap(c) ==
  /\ CanMatch
  /\ calls[c].pc = "range"
  /\ calls[c].todo = {}
  /\ IF sets[SetsOf(c)].next = {}
       THEN /\ calls' = [calls EXCEPT ![c].pc = "done", ![c].ret = "nomatch",
                                      ![c].mixed = Mixed(c)]
            /\ UNCHANGED sets
       ELSE /\ calls' = [calls EXCEPT ![c].pc = "loop", ![c].rest = Tail(@),
                                      ![c].mixed = Mixed(c)]
            /\ sets' = [sets EXCEPT ![SetsOf(c)] =
                          [cur |-> sets[SetsOf(c)].next, next |-> {}]]
  /\ Shared

(* Lines 51-52.                                                            *)
MatchReturn(c) ==
  /\ CanMatch
  /\ calls[c].pc = "loop"
  /\ calls[c].rest = <<>>
  /\ calls' = [calls EXCEPT
                 ![c].pc = "done",
                 ![c].ret = IF Nil \in sets[SetsOf(c)].cur THEN "panic"
                            ELSE IF compiled[1].r.term \in sets[SetsOf(c)].cur
                              THEN "match"
                            ELSE "nomatch",
                 ![c].mixed = Mixed(c)]
  /\ UNCHANGED sets
  /\ Shared

NextConc ==
  \/ CallCompile
  \/ \E c \in Callers :
       \/ MatchBegin(c)
       \/ MatchRange(c)
       \/ MatchVisit(c)
       \/ MatchSwap(c)
       \/ MatchReturn(c)

SpecConc == InitConc /\ [][NextConc]_vars

(* C9: a compiled pattern is immutable and safe for concurrent matching:   *)
(* the graph stays the one Compile built, and every call, however its      *)
(* steps interleave with another call's, returns what MatchString returns  *)
(* on its input when run alone.                                            *)
C9_ConcurrentMatchSafe ==
  \A c \in DOMAIN calls :
    /\ Called(1) => compiled[1] = Compile(pattern[1])
    /\ calls[c].pc = "done" =>
         calls[c].ret = MatchString(compiled[1].r, calls[c].in)

(* Two calls on different inputs, each having run while the other was      *)
(* under way, one accepting and one rejecting.                             *)
C9_Witness ==
  /\ DOMAIN calls = Callers
  /\ \E c \in Callers, d \in Callers :
       /\ calls[c].pc = "done" /\ calls[c].mixed /\ calls[c].ret = "match"
       /\ calls[d].pc = "done" /\ calls[d].mixed /\ calls[d].ret = "nomatch"
       /\ calls[c].in # calls[d].in

----------------------------------------------------------------------------
(* One MatchString call, statement by statement, nodeSet.add included:     *)
(* the recursion of add is an explicit stack of frames [set, n, i], i = 0  *)
(* at the entry of add (line 313) and i >= 1 at the i-th epsilon of n      *)
(* (line 317).  grown counts, per set and node, how often add has          *)
(* inserted the node and gone on to its epsilons; again records that add   *)
(* has been called on a node its set already held.                         *)

MaxStepPat == 2
MaxStepIn == 2

Runner == "r1"

StepPieces == {Ch(97), Ch(Star), Ch(Plus), Ch(Pipe), Ch(LParen), Ch(RParen)}

(* Patterns of a few pieces, and the same in a group under a star or a     *)
(* plus: a starred group around a starred literal and the quantified       *)
(* empty group are among them.                                             *)
(* Patterns of the test table in which several match nodes are live at    *)
(* once: a?ab, .+., a|b, (ab)?a and ()|a.                                  *)
StepCases ==
  {<<97, QMark, 97, 98>>, <<Dot, Plus, Dot>>, <<97, Pipe, 98>>,
   <<LParen, 97, 98, RParen, QMark, 97>>, <<LParen, RParen, Pipe, 97>>}

StepPatterns ==
  Texts(StepPieces, MaxStepPat)
    \cup {Group(c) \o Ch(q) : c \in Texts(StepPieces, MaxStepPat),
                              q \in {Star, Plus}}
    \cup StepCases

NoGrowth(heap) == [n \in 1..Len(heap) |-> 0]

IdleRun ==
  [pc |-> "idle", back |-> "loop", in |-> <<>>, rest |-> <<>>, todo |-> {},
   stack |-> <<>>, ret |-> "none", grown |-> [cur |-> <<>>, next |-> <<>>],
   again |-> FALSE]

InitStep ==
  /\ pattern \in {<<t>> : t \in StepPatterns}
  /\ pool = Pool(AbPieces, MaxStepIn)
  /\ input = Unset
  /\ compiled = [i \in DOMAIN pattern |-> NotCalled]
  /\ mustc = [i \in DOMAIN pattern |-> NotCalled]
  /\ out = [i \in DOMAIN pattern |-> "none"]
  /\ outm = [i \in DOMAIN pattern |-> "none"]
  /\ calls = [c \in {Runner} |-> IdleRun]
  /\ sets = [c \in {Runner} |-> NoSets]
  /\ slot = 1
  /\ pc = "compile"

(* The test of line 313 always answering that the node is new.             *)
existsNever(s, n) == FALSE

(* Line 313: _, exists := s[n].                                            *)
exists(s, n) == n \in s

(* The set left as it is.                                                  *)
clearNothing(s) == s

(* Lines 322-326.                                                          *)
clear(s) == {}

Frame(set, n) == [set |-> set, n |-> n, i |-> 0]

Top(run) == run.stack[Len(run.stack)]

(* add returns: the frame is popped, and the statement after the outermost *)
(* add goes on.                                                            *)
Popped(run) ==
  [run EXCEPT !.stack = SubSeq(@, 1, Len(@) - 1),
              !.pc = IF Len(run.stack) = 1 THEN run.back ELSE "add"]

(* Lines 37-38: the sets are made and cur.add(r.start) is called.          *)
StepBegin ==
  /\ CanMatch
  /\ calls[Runner].pc = "idle"
  /\ \E s \in Inputs(pool) :
       calls' = [calls EXCEPT ![Runner] =
                   [pc |-> "add", back |-> "loop", in |-> s, rest |-> Runes(s),
                    todo |-> {},
                    stack |-> <<Frame("cur", compiled[1].r.start)>>,
                    ret |-> "none",
                    grown |-> [cur |-> NoGrowth(compiled[1].r.heap),
                               next |-> NoGrowth(compiled[1].r.heap)],
                    again |-> FALSE]]
  /\ sets' = [sets EXCEPT ![Runner] = NoSets]
  /\ Shared

(* Lines 313-316: a node already in the set ends the call of add; a new    *)
(* one is inserted.  n.epsilons() on a nil node panics.                    *)
AddEnterRun(run, f) ==
  IF exists(sets[Runner][f.set], f.n) THEN [Popped(run) EXCEPT !.again = TRUE]
  ELSE IF f.n = Nil THEN [run EXCEPT !.pc = "done", !.ret = "panic"]
  ELSE [run EXCEPT !.stack[Len(run.stack)].i = 1,
                   !.grown[f.set][f.n] = @ + 1]

AddEnterSets(f) ==
  IF exists(sets[Runner][f.set], f.n) THEN sets
  ELSE [sets EXCEPT ![Runner][f.set] = @ \cup {f.n}]

AddEnter ==
  /\ CanMatch
  /\ calls[Runner].pc = "add"
  /\ Top(calls[Runner]).i = 0
  /\ calls' = [calls EXCEPT ![Runner] = AddEnterRun(@, Top(@))]
  /\ sets' = AddEnterSets(Top(calls[Runner]))
  /\ Shared

(* Lines 317-319: the next epsilon of n is added, or the range is over.    *)
AddEpsilonsRun(run, f, eps) ==
  IF f.i > Len(eps) THEN Popped(run)
  ELSE [run EXCEPT !.stack =
          Append([@ EXCEPT ![Len(@)].i = f.i + 1], Frame(f.set, eps[f.i]))]

AddEpsilons ==
  /\ CanMatch
  /\ calls[Runner].pc = "add"
  /\ Top(calls[Runner]).i >= 1
  /\ calls' = [calls EXCEPT ![Runner] =
                 AddEpsilonsRun(@, Top(@),
                                compiled[1].r.heap[Top(@).n].eps)]
  /\ UNCHANGED sets
  /\ Shared

(* Lines 39-40.                                                            *)
StepRange ==
  /\ CanMatch
  /\ calls[Runner].pc = "loop"
  /\ calls[Runner].rest # <<>>
  /\ calls' = [calls EXCEPT ![Runner].pc = "range",
                            ![Runner].todo = sets[Runner].cur]
  /\ UNCHANGED sets
  /\ Shared

(* Lines 41-43 for one live node, in whatever order the map yields them.   *)
StepVisitRun(run, n, node) ==
  IF IsMatchBuilder(node) /\ matches(node, Head(run.rest))
    THEN [run EXCEPT !.todo = @ \ {n}, !.pc = "add", !.back = "range",
                     !.stack = <<Frame("next", node.n)>>]
    ELSE [run EXCEPT !.todo = @ \ {n}]

StepVisit ==
  /\ CanMatch
  /\ calls[Runner].pc = "range"
  /\ \E n \in calls[Runner].todo :
       calls' = [calls EXCEPT ![Runner] =
                   StepVisitRun(@, n, compiled[1].r.heap[n])]
  /\ UNCHANGED sets
  /\ Shared

(* Lines 45-49.                                                            *)
StepSwap ==
  /\ CanMatch
  /\ calls[Runner].pc = "range"
  /\ calls[Runner].todo = {}
  /\ IF sets[Runner].next = {}
       THEN /\ calls' = [calls EXCEPT ![Runner].pc = "done",
                                      ![Runner].ret = "nomatch"]
            /\ UNCHANGED sets
       ELSE /\ calls' = [calls EXCEPT
                           ![Runner].pc = "loop",
                           ![Runner].rest = Tail(@),
                           ![Runner].grown =
                              [cur |-> @.next,
                               next |-> NoGrowth(compiled[1].r.heap)]]
            /\ sets' = [sets EXCEPT ![Runner] =
                          [cur |-> sets[Runner].next,
                           next |-> clear(sets[Runner].cur)]]
  /\ Shared

(* Lines 51-52.                                                            *)
StepReturn ==
  /\ CanMatch
  /\ calls[Runner].pc = "loop"
  /\ calls[Runner].rest = <<>>
  /\ calls' = [calls EXCEPT
                 ![Runner].pc = "done",
                 ![Runner].ret = IF compiled[1].r.term \in sets[Runner].cur
                                   THEN "match" ELSE "nomatch"]
  /\ UNCHANGED sets
  /\ Shared

(* The statements of the call.                                             *)
RunStep ==
  \/ StepBegin
  \/ AddEnter
  \/ AddEpsilons
  \/ StepRange
  \/ StepVisit
  \/ StepSwap
  \/ StepReturn

NextStep == CallCompile \/ RunStep

SpecStep == InitStep /\ [][NextStep]_vars

(* The call is scheduled as long as it has a statement to run.             *)
SpecStepFair == SpecStep /\ WF_vars(RunStep)

----------------------------------------------------------------------------
(* Reference semantics of the graph, by fixpoint rather than by recursion  *)
(* over the epsilon lists.                                                 *)

StepOut(heap, S) ==
  UNION {{heap[n].eps[i] : i \in DOMAIN heap[n].eps} : n \in S \ {Nil}}

RECURSIVE Closure(_, _)
Closure(heap, S) ==
  IF StepOut(heap, S) \subseteq S THEN S
  ELSE Closure(heap, S \cup StepOut(heap, S))

HasEpsCycle(heap) ==
  \E n \in 1..Len(heap) : n \in Closure(heap, StepOut(heap, {n}))

(* C11: MatchString terminates for every compiled pattern and every        *)
(* input, graphs with epsilon-only cycles included: add inserts and        *)
(* expands each node at most once per set, no set holds more elements      *)
(* than the graph has nodes (so the recursion of add is no deeper than     *)
(* that plus the call that finds the node present), and a call that has    *)
(* a compiled pattern to run on reaches its return.                        *)
AddBounded ==
  (Runner \in DOMAIN calls /\ calls[Runner].pc # "idle") =>
    /\ \A k \in {"cur", "next"} :
         /\ \A n \in DOMAIN calls[Runner].grown[k] :
              calls[Runner].grown[k][n] <= 1
         /\ Cardinality(sets[Runner][k]) <= Len(compiled[1].r.heap)
    /\ Len(calls[Runner].stack) <= Len(compiled[1].r.heap) + 1

C11_MatchTerminates ==
  /\ []AddBounded
  /\ (pc = "match" /\ compiled[1].status = "ok")
       ~> (calls[Runner].pc = "done")

(* A call has returned "match" on a two-code-point input over the graph   *)
(* of a quantified group around a quantified term, which has an            *)
(* epsilon-only cycle, add having met a node already present.              *)
C11_Witness ==
  /\ Runner \in DOMAIN calls
  /\ Len(pattern[1]) >= 5 /\ pattern[1][1] = LParen
  /\ calls[Runner].pc = "done"
  /\ calls[Runner].ret = "match"
  /\ calls[Runner].again
  /\ Len(calls[Runner].in) = 2
  /\ HasEpsCycle(compiled[1].r.heap)

----------------------------------------------------------------------------
(* The nodes live after a sequence of code points, from the graph alone.   *)

Move(heap, S, r) ==
  {heap[n].n : n \in {x \in S \ {Nil} :
                        IsMatchBuilder(heap[x]) /\ matches(heap[x], r)}}

RECURSIVE Reach(_, _)
Reach(re, rs) ==
  IF rs = <<>> THEN Closure(re.heap, {re.start})
  ELSE Closure(re.heap,
               Move(re.heap, Reach(re, SubSeq(rs, 1, Len(rs) - 1)),
                    rs[Len(rs)]))

(* The code points of the input the call has gone past.                    *)
Read(run) == SubSeq(Runes(run.in), 1, Len(Runes(run.in)) - Len(run.rest))

ReadNext(run) ==
  SubSeq(Runes(run.in), 1, Len(Runes(run.in)) - Len(run.rest) + 1)

Frontier(run, re, s) ==
  /\ run.pc = "loop" =>
       /\ s.next = {}
       /\ s.cur = Reach(re, Read(run))
       /\ StepOut(re.heap, s.cur) \subseteq s.cur
       /\ s.cur # {}
  /\ (run.pc = "done" /\ run.rest # <<>>) =>
       /\ run.ret = "nomatch"
       /\ Reach(re, Read(run)) # {}
       /\ Reach(re, ReadNext(run)) = {}
  /\ (run.pc = "done" /\ run.rest = <<>>) =>
       /\ run.ret \in {"match", "nomatch"}
       /\ (run.ret = "match") <=> (re.term \in Reach(re, Runes(run.in)))
       /\ Reach(re, Runes(run.in)) # {}

(* C12: before each code point is processed next is empty and cur is       *)
(* closed under epsilon edges and is exactly the set of nodes reachable    *)
(* from the entry node by consuming the prefix read so far, whatever       *)
(* order the live nodes are visited in; the call returns false as soon as  *)
(* that set becomes empty, and otherwise true exactly when the Terminal    *)
(* node is in cur after the last code point.                               *)
C12_FrontierInvariant ==
  Runner \in DOMAIN calls =>
    Frontier(calls[Runner], compiled[1].r, sets[Runner])

(* Before the second code point of an input, after a range over a cur      *)
(* in which two match nodes accepted the first one.                        *)
C12_Witness ==
  /\ Runner \in DOMAIN calls
  /\ calls[Runner].pc = "loop"
  /\ Len(calls[Runner].rest) = 1
  /\ Len(Runes(calls[Runner].in)) = 2
  /\ Cardinality({n \in Reach(compiled[1].r, <<>>) :
                    /\ IsMatchBuilder(compiled[1].r.heap[n])
                    /\ matches(compiled[1].r.heap[n],
                               Head(Runes(calls[Runner].in)))}) >= 2

----------------------------------------------------------------------------
(* Wiring: the driver compiles a pattern of a few pieces, or such a        *)
(* pattern in a quantified group, and matches it on one input.             *)

MaxWirePat == 3
MaxWireIn == 2

WirePieces ==
  {Ch(97), Ch(Dot), Ch(Star), Ch(Plus), Ch(QMark), Ch(Pipe), Ch(LParen),
   Ch(RParen)}

WirePatterns ==
  Texts(WirePieces, MaxWirePat)
    \cup {Group(c) \o Ch(q) : c \in Texts(WirePieces, MaxWirePat),
                              q \in Quantifiers}

InitWire == InitWith({<<t>> : t \in WirePatterns}, Pool(AbPieces, MaxWireIn))

SpecWire == InitWire /\ [][Next]_vars

----------------------------------------------------------------------------
(* The nodes the matcher can come to from the entry node, over epsilon     *)
(* edges and consuming successors.                                         *)

EdgesOut(heap, S) ==
  StepOut(heap, S)
    \cup {heap[n].n : n \in {x \in S \ {Nil} : IsMatchBuilder(heap[x])}}

RECURSIVE Reachable(_, _)
Reachable(heap, S) ==
  IF EdgesOut(heap, S) \subseteq S THEN S
  ELSE Reachable(heap, S \cup EdgesOut(heap, S))

WellWired(re) ==
  /\ re.start # Nil
  /\ \A n \in Reachable(re.heap, {re.start}) \ {Nil} :
       IsMatchBuilder(re.heap[n]) => re.heap[n].n # Nil
  /\ \A n \in 1..Len(re.heap) :
       \A i \in DOMAIN re.heap[n].eps : re.heap[n].eps[i] # Nil
  /\ re.term \in 1..Len(re.heap)
  /\ re.heap[re.term].kind = "terminal"
  /\ re.heap[re.term].eps = <<>>
  /\ re.heap[re.term].n = Nil

(* C13: after every successful Compile every Literal and AnyChar node      *)
(* reachable from the entry node has a consuming successor, every epsilon  *)
(* edge points to a node, and the Terminal node has no outgoing edge; so   *)
(* MatchString never comes to a nil node (it does not panic).              *)
C13_GraphWellWired ==
  \A i \in DOMAIN compiled :
    compiled[i].status = "ok" =>
      /\ WellWired(compiled[i].r)
      /\ Matched(i) => out[i] \in {"match", "nomatch"}

(* A quantified group whose graph holds a pipe node and a star node has    *)
(* compiled and matched an input.                                          *)
C13_Witness ==
  \E i \in DOMAIN compiled :
    /\ compiled[i].status = "ok"
    /\ \E n \in 1..Len(compiled[i].r.heap) : compiled[i].r.heap[n].kind = "pipe"
    /\ \E n \in 1..Len(compiled[i].r.heap) : compiled[i].r.heap[n].kind = "star"
    /\ Len(pattern[i]) >= 6 /\ pattern[i][1] = LParen
    /\ Matched(i) /\ out[i] = "match" /\ Len(input) >= 1

====
